---- MODULE Spec2Model ----
(***************************************************************************)
(* A model of request() of packages/rest-request/src/request.ts and of    *)
(* generateToken() of packages/rest-auth, which calls it.                  *)
(*                                                                         *)
(* Strings are sequences of one-character strings, so that the query       *)
(* string encoder really percent-encodes and a parser can take its output  *)
(* apart again.  Parameter objects are ordered sequences of <<key, value>> *)
(* pairs (JavaScript keeps insertion order) that live on a heap, so that   *)
(* aliasing between the caller's object and the copy request() works on is *)
(* something the model can express.                                        *)
(***************************************************************************)
EXTENDS Integers, Sequences, FiniteSets, TLC

\* ------------------------------------------------------------------ bounds
NumDispatch == 2

Dispatches == 1..NumDispatch

\* ----------------------------------------------------------------- strings
Undefined == "@undefined"

\* The characters of every string value the model uses.
Chars(s) ==
  CASE s = "f"         -> <<"f">>
    [] s = "q"         -> <<"q">>
    [] s = "token"     -> <<"t", "o", "k", "e", "n">>
    [] s = "username"  -> <<"u", "s", "e", "r">>
    [] s = "password"  -> <<"p", "w", "d">>
    [] s = "json"      -> <<"j", "s", "o", "n">>
    [] s = "geojson"   -> <<"g", "e", "o", "j", "s", "o", "n">>
    [] s = "text"      -> <<"t", "e", "x", "t">>
    [] s = "html"      -> <<"h", "t", "m", "l">>
    [] s = "image"     -> <<"i", "m", "a", "g", "e">>
    [] s = "zip"       -> <<"z", "i", "p">>
    [] s = "pjson"     -> <<"p", "j", "s", "o", "n">>
    [] s = "parks"     -> <<"p", "a", "r", "k", "s">>
    [] s = "Casey"     -> <<"C", "a", "s", "e", "y">>
    [] s = "Jones"     -> <<"J", "o", "n", "e", "s">>
    [] s = "mine"      -> <<"m", "i", "n", "e">>
    [] s = "tk"        -> <<"t", "k">>
    [] s = "a&=%"      -> <<"a", "&", "=", "%">>
    [] s = ""          -> <<>>
    [] s = Undefined   -> <<"u", "n", "d", "e", "f", "i", "n", "e", "d">>

\* encodeURIComponent on one character: the reserved characters of the
\* model's alphabet become %XX, every other character is kept.
EncodeChar(c) ==
  CASE c = "&" -> <<"%", "2", "6">>
    [] c = "=" -> <<"%", "3", "D">>
    [] c = "%" -> <<"%", "2", "5">>
    [] c = "?" -> <<"%", "3", "F">>
    [] OTHER   -> <<c>>

RECURSIVE encodeURIComponent(_)
encodeURIComponent(s) ==
  IF s = <<>> THEN <<>>
  ELSE EncodeChar(Head(s)) \o encodeURIComponent(Tail(s))

\* ------------------------------------------------------- parameter objects
Pair(k, v) == <<k, v>>

Keys(obj) == {obj[i][1] : i \in 1..Len(obj)}

HasKey(obj, k) == k \in Keys(obj)

Get(obj, k) ==
  IF HasKey(obj, k)
    THEN LET i == CHOOSE j \in 1..Len(obj) : obj[j][1] = k IN obj[i][2]
    ELSE Undefined

\* obj[k] = v: an existing key keeps its place, a new key goes last.
Put(obj, k, v) ==
  IF HasKey(obj, k)
    THEN [i \in 1..Len(obj) |-> IF obj[i][1] = k THEN Pair(k, v) ELSE obj[i]]
    ELSE Append(obj, Pair(k, v))

\* { ...a, ...b }
RECURSIVE Spread(_, _)
Spread(a, b) ==
  IF b = <<>> THEN a
  ELSE Spread(Put(a, Head(b)[1], Head(b)[2]), Tail(b))

\* value -> string, as "" + value does
Stringify(v) == Chars(v)

\* utils/encode-query-string: key=value pairs, each side percent-encoded,
\* joined with "&", in the object's key order.
RECURSIVE encodeQueryString(_)
encodeQueryString(obj) ==
  IF obj = <<>> THEN <<>>
  ELSE LET p    == Head(obj)
           item == encodeURIComponent(Chars(p[1])) \o <<"=">>
                     \o encodeURIComponent(Stringify(p[2]))
       IN  IF Tail(obj) = <<>> THEN item
           ELSE item \o <<"&">> \o encodeQueryString(Tail(obj))

\* utils/encode-form-data: one append(key, value) per key; FormData keeps
\* the parts as flat strings.
encodeFormData(obj) ==
  [i \in 1..Len(obj) |-> [name |-> Chars(obj[i][1]), value |-> Stringify(obj[i][2])]]

\* ------------------------------------------------------------ the caller's
\* Parameter objects the callers own.  Their heap addresses are their
\* positions in this sequence.
CallerObjects == <<
  <<>>,
  <<Pair("q", "parks")>>,
  <<Pair("f", "geojson"), Pair("q", "a&=%")>>,
  <<Pair("q", "parks"), Pair("f", "json")>>,
  <<Pair("f", "text")>>,
  <<Pair("f", "html")>>,
  <<Pair("f", "image")>>,
  <<Pair("f", "zip")>>,
  <<Pair("f", "pjson")>>,
  <<Pair("f", Undefined)>>,
  <<Pair("token", "mine"), Pair("q", "parks")>>,
  <<Pair("username", "Casey"), Pair("password", "Jones")>>,
  <<Pair("username", "a&=%"), Pair("password", "tk")>>
>>

CallerAddrs == 1..Len(CallerObjects)

\* requestParams omitted by the caller
NoArg == 0

ParamArgs == CallerAddrs \cup {NoArg}

CredentialAddrs == {a \in CallerAddrs : HasKey(CallerObjects[a], "username")}

\* The address of the object literal that dispatch d builds for itself.
CopyAddr(d) == Len(CallerObjects) + d

Addrs == CallerAddrs \cup {CopyAddr(d) : d \in Dispatches}

Urls == {<<"/", "a">>, <<"/", "b">>}

\* requestOptions: omitted, or an object with any of its two optional keys;
\* an optional key may also be present with the value undefined.
OptionObjects ==
  {h @@ a : h \in {<<>>} \cup {[httpMethod |-> m] : m \in {"GET", "POST", Undefined}},
            a \in {<<>>} \cup {[authentication |-> p] : p \in {"provider", Undefined}}}

OptionArgs == {[given |-> FALSE]} \cup {[given |-> TRUE, obj |-> o] : o \in OptionObjects}

\* What an authentication provider may resolve to, and what it may fail with.
Tokens == {"", "a&=%"}

\* Response bodies the server may send.
RawBodies == {"plain", "err400", "errBare", "tokenResp", "garbage"}

\* ------------------------------------------------------------------ values
\* Every value a promise of the model settles with has this one shape:
\* kind says what it is, text is its string content (the body of a text or
\* a blob, an error's message), code an error's code and obj the content of
\* a parsed JSON body.
NoJson == [hasError |-> FALSE, code |-> 0, message |-> "", token |-> "", expires |-> 0]

Val(kind, text, code, obj) == [kind |-> kind, text |-> text, code |-> code, obj |-> obj]

UndefinedVal == Val("undefined", "", 0, NoJson)

ErrorVal(kind) == Val(kind, "", 0, NoJson)

\* JSON.parse of a response body; "garbage" is no JSON text.
IsJson(raw) == raw # "garbage"

JsonOf(raw) ==
  CASE raw = "plain"     -> NoJson
    [] raw = "err400"    -> [NoJson EXCEPT !.hasError = TRUE, !.code = 400,
                                           !.message = "Invalid token"]
    [] raw = "errBare"   -> [NoJson EXCEPT !.hasError = TRUE, !.code = 500]
    [] raw = "tokenResp" -> [NoJson EXCEPT !.token = "token", !.expires = 86400]

\* The body readers of a fetch Response.
ResponseJson(raw) ==
  IF IsJson(raw) THEN [state |-> "ok", value |-> Val("json", "", 0, JsonOf(raw))]
  ELSE [state |-> "failed", value |-> ErrorVal("SyntaxError")]

ResponseText(raw) == [state |-> "ok", value |-> Val("text", raw, 0, NoJson)]

ResponseBlob(raw) == [state |-> "ok", value |-> Val("blob", raw, 0, NoJson)]

\* utils/check-for-errors: a body with an error member throws a
\* RequestError that carries the message, the code and the body; any other
\* body passes.
checkForErrors(v) ==
  IF v.obj.hasError
    THEN [state |-> "rejected",
          value |-> Val("RequestError",
                        IF v.obj.message = "" THEN "UNKNOWN_ERROR_CODE" ELSE v.obj.message,
                        v.obj.code, v.obj)]
    ELSE [state |-> "resolved", value |-> v]

\* ----------------------------------------------------- request(), by parts
\* const { httpMethod, authentication } = { ...{ httpMethod: "POST" }, ...requestOptions }
MergeOptions(o) ==
  IF o.given THEN o.obj @@ [httpMethod |-> "POST"] ELSE [httpMethod |-> "POST"]

Destructure(rec, k) == IF k \in DOMAIN rec THEN rec[k] ELSE Undefined

\* requestParams: IParams = { f: "json" }, when the argument is omitted
DefaultParams == <<Pair("f", "json")>>

\* A slip: the default left out of the merge.
MergeParamsNoDefault(requestParams) == requestParams

\* const params = { ...{ f: "json" }, ...requestParams }
MergeParams(requestParams) == Spread(<<Pair("f", "json")>>, requestParams)

\* A slip: the defaults assigned into the caller's object instead of a copy.
ParamsAddrAliased(d, a) == IF a = NoArg THEN CopyAddr(d) ELSE a

\* The object the merged parameters are stored in: a new object literal.
ParamsAddr(d, a) == CopyAddr(d)

\* authentication ? authentication.getToken(url) : Promise.resolve("")
TokenRequest(authentication) ==
  IF authentication # Undefined
    THEN [state |-> "pending", value |-> ""]
    ELSE [state |-> "resolved", value |-> ""]

\* if (token.length) { params.token = token; }
InjectToken(obj, token) ==
  IF Len(Chars(token)) # 0 THEN Put(obj, "token", token) ELSE obj

\* A slip: the query string appended whatever the method.
RequestUrlAlways(u, httpMethod, obj) == u \o <<"?">> \o encodeQueryString(obj)

\* if (httpMethod === "GET") { url = url + "?" + encodeQueryString(params); }
RequestUrl(u, httpMethod, obj) ==
  IF httpMethod = "GET" THEN u \o <<"?">> \o encodeQueryString(obj) ELSE u

\* if (httpMethod === "POST") { options.body = encodeFormData(params); }
RequestBody(opts, httpMethod, obj) ==
  IF httpMethod = "POST"
    THEN [opts EXCEPT !.hasBody = TRUE, !.body = encodeFormData(obj)]
    ELSE opts

\* A slip: an image read as text.
DecodeBodyImageAsText(f, raw) ==
  CASE f = "json"    -> ResponseJson(raw)
    [] f = "geojson" -> ResponseJson(raw)
    [] f = "image"   -> ResponseText(raw)
    [] f = "html"    -> ResponseText(raw)
    [] f = "text"    -> ResponseText(raw)
    [] f = "zip"     -> ResponseBlob(raw)
    [] OTHER         -> [state |-> "ok", value |-> UndefinedVal]

\* switch (params.f) { case "json": return response.json(); ... }
DecodeBody(f, raw) ==
  CASE f = "json"    -> ResponseJson(raw)
    [] f = "geojson" -> ResponseJson(raw)
    [] f = "image"   -> ResponseBlob(raw)
    [] f = "html"    -> ResponseText(raw)
    [] f = "text"    -> ResponseText(raw)
    [] f = "zip"     -> ResponseBlob(raw)
    [] OTHER         -> [state |-> "ok", value |-> UndefinedVal]

\* A slip: the check left out.
ValidateDataUnchecked(f, v) == [state |-> "resolved", value |-> v]

\* if (params.f === "json" || params.f === "geojson") { checkForErrors(data); return data; }
\* else { return data; }
ValidateData(f, v) ==
  IF f = "json" \/ f = "geojson"
    THEN checkForErrors(v)
    ELSE [state |-> "resolved", value |-> v]

\* ------------------------------------------------------------------- state
VARIABLES
  heap,          \* address -> parameter object
  pc,            \* where each dispatch is
  entry,         \* "request" or "generateToken": the function the caller called
  urlArg,        \* the arguments of the call, as the caller passed them
  paramsArg,
  optionsArg,
  url,           \* request()'s locals
  httpMethod,
  authentication,
  params,        \* the address of the merged parameter object
  options,       \* the RequestInit handed to fetch
  tokenRequest,  \* the promise of the token
  fetchCalls,    \* the calls of fetch() each dispatch has made
  fetchPromise,  \* the promise fetch() returned
  data,          \* what the body reader produced
  result,        \* the promise request() returned
  settled        \* how many times that promise was settled

vars == <<heap, pc, entry, urlArg, paramsArg, optionsArg, url, httpMethod,
          authentication, params, options, tokenRequest, fetchCalls,
          fetchPromise, data, result, settled>>

NoPromise == [state |-> "none", value |-> ""]

NoOutcome == [state |-> "none", value |-> UndefinedVal]

EmptyInit == [method |-> Undefined, hasBody |-> FALSE, body |-> <<>>]

Init ==
  /\ heap = [a \in Addrs |-> IF a \in CallerAddrs THEN CallerObjects[a] ELSE <<>>]
  /\ pc = [d \in Dispatches |-> "idle"]
  /\ entry = [d \in Dispatches |-> "none"]
  /\ urlArg = [d \in Dispatches |-> <<>>]
  /\ paramsArg = [d \in Dispatches |-> NoArg]
  /\ optionsArg = [d \in Dispatches |-> [given |-> FALSE]]
  /\ url = [d \in Dispatches |-> <<>>]
  /\ httpMethod = [d \in Dispatches |-> Undefined]
  /\ authentication = [d \in Dispatches |-> Undefined]
  /\ params = [d \in Dispatches |-> NoArg]
  /\ options = [d \in Dispatches |-> EmptyInit]
  /\ tokenRequest = [d \in Dispatches |-> NoPromise]
  /\ fetchCalls = [d \in Dispatches |-> <<>>]
  /\ fetchPromise = [d \in Dispatches |-> NoPromise]
  /\ data = [d \in Dispatches |-> NoOutcome]
  /\ result = [d \in Dispatches |-> NoOutcome]
  /\ settled = [d \in Dispatches |-> 0]

\* The body of request() up to the .then on the token promise: the merges,
\* the RequestInit and the token request.
Call(d, e, u, a, o) ==
  /\ pc[d] = "idle"
  /\ LET merged == MergeOptions(o)
         m      == Destructure(merged, "httpMethod")
         auth   == Destructure(merged, "authentication")
         addr   == ParamsAddr(d, a)
     IN  /\ httpMethod' = [httpMethod EXCEPT ![d] = m]
         /\ authentication' = [authentication EXCEPT ![d] = auth]
         /\ params' = [params EXCEPT ![d] = addr]
         /\ heap' = [heap EXCEPT ![addr] =
                       MergeParams(IF a = NoArg THEN DefaultParams ELSE heap[a])]
         /\ options' = [options EXCEPT ![d] = [EmptyInit EXCEPT !.method = m]]
         /\ tokenRequest' = [tokenRequest EXCEPT ![d] = TokenRequest(auth)]
  /\ entry' = [entry EXCEPT ![d] = e]
  /\ urlArg' = [urlArg EXCEPT ![d] = u]
  /\ paramsArg' = [paramsArg EXCEPT ![d] = a]
  /\ optionsArg' = [optionsArg EXCEPT ![d] = o]
  /\ url' = [url EXCEPT ![d] = u]
  /\ pc' = [pc EXCEPT ![d] = "awaitToken"]
  /\ UNCHANGED <<fetchCalls, fetchPromise, data, result, settled>>

\* request(url, requestParams, requestOptions)
Request(d, u, a, o) == Call(d, "request", u, a, o)

\* generateToken(url, credentials): request(url, credentials)
GenerateToken(d, u, c) == Call(d, "generateToken", u, c, [given |-> FALSE])

\* The authentication provider settles the promise getToken() returned.
ProviderResolve(d, t) ==
  /\ tokenRequest[d].state = "pending"
  /\ tokenRequest' = [tokenRequest EXCEPT ![d] = [state |-> "resolved", value |-> t]]
  /\ UNCHANGED <<heap, pc, entry, urlArg, paramsArg, optionsArg, url, httpMethod,
                 authentication, params, options, fetchCalls, fetchPromise, data,
                 result, settled>>

ProviderReject(d) ==
  /\ tokenRequest[d].state = "pending"
  /\ tokenRequest' = [tokenRequest EXCEPT ![d] = [state |-> "rejected", value |-> "AuthError"]]
  /\ UNCHANGED <<heap, pc, entry, urlArg, paramsArg, optionsArg, url, httpMethod,
                 authentication, params, options, fetchCalls, fetchPromise, data,
                 result, settled>>

\* A slip: the callback run without waiting for the promise.
TokenReadyEager(d) == tokenRequest[d].state \in {"pending", "resolved"}

\* A .then callback runs once its promise is fulfilled.
TokenReady(d) == tokenRequest[d].state = "resolved"

\* The callback's body: inject the token, encode, call fetch().
SendRequest(d, token) ==
  /\ LET obj  == InjectToken(heap[params[d]], token)
         u    == RequestUrl(url[d], httpMethod[d], obj)
         init == RequestBody(options[d], httpMethod[d], obj)
     IN  /\ heap' = [heap EXCEPT ![params[d]] = obj]
         /\ url' = [url EXCEPT ![d] = u]
         /\ options' = [options EXCEPT ![d] = init]
         /\ fetchCalls' = [fetchCalls EXCEPT ![d] = Append(@, [url |-> u, init |-> init])]
  /\ fetchPromise' = [fetchPromise EXCEPT ![d] = [state |-> "pending", value |-> ""]]
  /\ pc' = [pc EXCEPT ![d] = "awaitFetch"]
  /\ UNCHANGED <<entry, urlArg, paramsArg, optionsArg, httpMethod, authentication,
                 params, tokenRequest, data, result, settled>>

\* tokenRequest.then(token => { ...; return fetch(url, options) ... })
TokenThen(d) ==
  /\ pc[d] = "awaitToken"
  /\ TokenReady(d)
  /\ SendRequest(d, tokenRequest[d].value)

Settle(d, outcome) ==
  /\ result' = [result EXCEPT ![d] = outcome]
  /\ settled' = [settled EXCEPT ![d] = @ + 1]
  /\ pc' = [pc EXCEPT ![d] = "done"]

\* A slip: a failed token treated as no token.
TokenRejectedSwallowed(d) ==
  /\ pc[d] = "awaitToken"
  /\ tokenRequest[d].state = "rejected"
  /\ SendRequest(d, "")

\* A rejected token promise skips the callback: the promise request()
\* returned is rejected with the same reason.
TokenRejected(d) ==
  /\ pc[d] = "awaitToken"
  /\ tokenRequest[d].state = "rejected"
  /\ Settle(d, [state |-> "rejected", value |-> ErrorVal(tokenRequest[d].value)])
  /\ UNCHANGED <<heap, entry, urlArg, paramsArg, optionsArg, url, httpMethod,
                 authentication, params, options, tokenRequest, fetchCalls,
                 fetchPromise, data>>

\* The transport settles the promise fetch() returned.
FetchResolve(d, raw) ==
  /\ fetchPromise[d].state = "pending"
  /\ fetchPromise' = [fetchPromise EXCEPT ![d] = [state |-> "resolved", value |-> raw]]
  /\ UNCHANGED <<heap, pc, entry, urlArg, paramsArg, optionsArg, url, httpMethod,
                 authentication, params, options, tokenRequest, fetchCalls, data,
                 result, settled>>

FetchReject(d) ==
  /\ fetchPromise[d].state = "pending"
  /\ fetchPromise' = [fetchPromise EXCEPT ![d] = [state |-> "rejected", value |-> "NetworkError"]]
  /\ UNCHANGED <<heap, pc, entry, urlArg, paramsArg, optionsArg, url, httpMethod,
                 authentication, params, options, tokenRequest, fetchCalls, data,
                 result, settled>>

\* .then(response => { switch (params.f) ... })
Decode(d) ==
  /\ pc[d] = "awaitFetch"
  /\ fetchPromise[d].state = "resolved"
  /\ data' = [data EXCEPT ![d] = DecodeBody(Get(heap[params[d]], "f"), fetchPromise[d].value)]
  /\ pc' = [pc EXCEPT ![d] = "decoded"]
  /\ UNCHANGED <<heap, entry, urlArg, paramsArg, optionsArg, url, httpMethod,
                 authentication, params, options, tokenRequest, fetchCalls,
                 fetchPromise, result, settled>>

\* The first call of fetch() a dispatch made.
Sent(d) == fetchCalls[d][1]

HasSent(d) == Len(fetchCalls[d]) >= 1

\* A slip: a failed fetch() tried again.
FetchFailedRetry(d) ==
  /\ fetchCalls' = [fetchCalls EXCEPT ![d] = Append(@, Sent(d))]
  /\ fetchPromise' = [fetchPromise EXCEPT ![d] = [state |-> "pending", value |-> ""]]
  /\ UNCHANGED <<heap, pc, entry, urlArg, paramsArg, optionsArg, url, httpMethod,
                 authentication, params, options, tokenRequest, data, result, settled>>

\* What becomes of a dispatch whose fetch() failed.
FetchFailed(d) ==
  /\ Settle(d, [state |-> "rejected", value |-> ErrorVal(fetchPromise[d].value)])
  /\ UNCHANGED <<heap, entry, urlArg, paramsArg, optionsArg, url, httpMethod,
                 authentication, params, options, tokenRequest, fetchCalls,
                 fetchPromise, data>>

\* A rejected fetch() skips both callbacks.
FetchRejected(d) ==
  /\ pc[d] = "awaitFetch"
  /\ fetchPromise[d].state = "rejected"
  /\ FetchFailed(d)

\* .then(data => { if (params.f === "json" || ...) ... })
Validate(d) ==
  /\ pc[d] = "decoded"
  /\ data[d].state = "ok"
  /\ Settle(d, ValidateData(Get(heap[params[d]], "f"), data[d].value))
  /\ UNCHANGED <<heap, entry, urlArg, paramsArg, optionsArg, url, httpMethod,
                 authentication, params, options, tokenRequest, fetchCalls,
                 fetchPromise, data>>

\* A body reader that failed skips the second callback.
DecodeRejected(d) ==
  /\ pc[d] = "decoded"
  /\ data[d].state = "failed"
  /\ Settle(d, [state |-> "rejected", value |-> data[d].value])
  /\ UNCHANGED <<heap, entry, urlArg, paramsArg, optionsArg, url, httpMethod,
                 authentication, params, options, tokenRequest, fetchCalls,
                 fetchPromise, data>>

\* What one dispatch does once it was called, with the bodies the server
\* may answer.
Step(d, bodies) ==
  \/ \E t \in Tokens : ProviderResolve(d, t)
  \/ ProviderReject(d)
  \/ TokenThen(d)
  \/ TokenRejected(d)
  \/ \E raw \in bodies : FetchResolve(d, raw)
  \/ FetchReject(d)
  \/ Decode(d)
  \/ FetchRejected(d)
  \/ Validate(d)
  \/ DecodeRejected(d)

\* One caller, every combination of arguments.
Next ==
  \/ \E u \in Urls, a \in ParamArgs, o \in OptionArgs : Request(1, u, a, o)
  \/ \E u \in Urls, c \in CredentialAddrs : GenerateToken(1, u, c)
  \/ Step(1, RawBodies)

Spec == Init /\ [][Next]_vars

\* Concurrent callers.  Two kinds of call share one parameter object: one
\* asks the provider for a token and sends a GET, the other sends the
\* default POST; a third kind asks for text with an object of its own.
SharedObject == 2

TextObject == 5

ConcurrentCalls ==
  {[url |-> <<"/", "a">>, params |-> SharedObject,
    options |-> [given |-> TRUE,
                 obj |-> [httpMethod |-> "GET", authentication |-> "provider"]]],
   [url |-> <<"/", "b">>, params |-> SharedObject, options |-> [given |-> FALSE]],
   [url |-> <<"/", "b">>, params |-> TextObject, options |-> [given |-> FALSE]]}

ConcurrentBodies == {"err400", "garbage"}

NextConcurrent ==
  \E d \in Dispatches :
    \/ \E c \in ConcurrentCalls : Request(d, c.url, c.params, c.options)
    \/ Step(d, ConcurrentBodies)

SpecConcurrent == Init /\ [][NextConcurrent]_vars

\* ------------------------------------------------- reading a request back
\* decodeURIComponent
HexChar(a, b) ==
  CASE a = "2" /\ b = "6" -> "&"
    [] a = "3" /\ b = "D" -> "="
    [] a = "2" /\ b = "5" -> "%"
    [] a = "3" /\ b = "F" -> "?"
    [] OTHER -> "#"

RECURSIVE decodeURIComponent(_)
decodeURIComponent(s) ==
  IF s = <<>> THEN <<>>
  ELSE IF Head(s) = "%" /\ Len(s) >= 3
    THEN <<HexChar(s[2], s[3])>> \o decodeURIComponent(SubSeq(s, 4, Len(s)))
    ELSE <<Head(s)>> \o decodeURIComponent(Tail(s))

\* The position of the first c in s, or Len(s) + 1.
RECURSIVE IndexOf(_, _, _)
IndexOf(s, c, i) ==
  IF i > Len(s) THEN i
  ELSE IF s[i] = c THEN i ELSE IndexOf(s, c, i + 1)

RECURSIVE Split(_, _)
Split(s, c) ==
  LET i == IndexOf(s, c, 1)
  IN  IF i > Len(s) THEN <<s>>
      ELSE <<SubSeq(s, 1, i - 1)>> \o Split(SubSeq(s, i + 1, Len(s)), c)

\* A query string as the server reads it: the <<name, value>> fields.
ParseQueryString(qs) ==
  IF qs = <<>> THEN <<>>
  ELSE LET items == Split(qs, "&")
       IN  [i \in 1..Len(items) |->
              LET eq == IndexOf(items[i], "=", 1)
              IN  <<decodeURIComponent(SubSeq(items[i], 1, eq - 1)),
                    decodeURIComponent(SubSeq(items[i], eq + 1, Len(items[i])))>>]

\* A form body as the server reads it.
ParseFormData(body) == [i \in 1..Len(body) |-> <<body[i].name, body[i].value>>]

\* The fields of a parameter object, as strings.
FieldsOf(obj) == [i \in 1..Len(obj) |-> <<Chars(obj[i][1]), Stringify(obj[i][2])>>]

StartsWith(s, prefix) ==
  Len(s) >= Len(prefix) /\ SubSeq(s, 1, Len(prefix)) = prefix

\* What follows "?" in the URL that was fetched.
QueryOf(d) == SubSeq(Sent(d).url, Len(urlArg[d]) + 2, Len(Sent(d).url))

\* The fields the server receives from a GET or a POST dispatch.
SentFields(d) ==
  IF httpMethod[d] = "GET" THEN ParseQueryString(QueryOf(d))
  ELSE ParseFormData(Sent(d).init.body)

TokenFields(fields) == LET Test(p) == p[1] = Chars("token") IN SelectSeq(fields, Test)

\* The parameter object the caller passed, as the caller wrote it.
CallerObject(d) ==
  IF paramsArg[d] = NoArg THEN <<Pair("f", "json")>> ELSE CallerObjects[paramsArg[d]]

\* The effective format of a dispatch.
Format(d) == Get(heap[params[d]], "f")

\* ------------------------------------------------------------------ claims
\* C1: a GET dispatch calls fetch with no body and with the input URL, "?"
\* and the query string of its parameters; a POST dispatch calls fetch with
\* a non-empty form body of its parameters and with exactly the input URL.
C1_MethodSelectsEncoding ==
  \A d \in Dispatches : \A i \in 1..Len(fetchCalls[d]) :
    LET c == fetchCalls[d][i]
    IN  /\ httpMethod[d] = "GET" =>
             /\ ~c.init.hasBody
             /\ c.init.method = "GET"
             /\ StartsWith(c.url, urlArg[d] \o <<"?">>)
             /\ ParseQueryString(SubSeq(c.url, Len(urlArg[d]) + 2, Len(c.url)))
                  = FieldsOf(heap[params[d]])
        /\ httpMethod[d] = "POST" =>
             /\ c.init.hasBody
             /\ c.init.method = "POST"
             /\ Len(c.init.body) > 0
             /\ ParseFormData(c.init.body) = FieldsOf(heap[params[d]])
             /\ c.url = urlArg[d]

\* A GET dispatch has sent parameters that need percent-encoding.
C1_Witness ==
  /\ httpMethod[1] = "GET"
  /\ HasSent(1)
  /\ Get(CallerObject(1), "q") = "a&=%"

\* The fields the server receives from a dispatch, however it was encoded:
\* those of the form body if there is one, else those of the query string
\* if there is one, else none.
WireFields(d) ==
  IF Sent(d).init.hasBody THEN ParseFormData(Sent(d).init.body)
  ELSE IF Len(Sent(d).url) > Len(urlArg[d]) THEN ParseQueryString(QueryOf(d))
  ELSE <<>>

\* C2: the request of a dispatch whose provider resolved to a non-empty
\* token has a token field, and every token field of it is that token; the
\* request of a dispatch without a provider has no token field but the
\* caller's own.
C2_TokenField ==
  \A d \in Dispatches :
    HasSent(d) =>
      /\ (authentication[d] # Undefined /\ tokenRequest[d].value # "") =>
           /\ TokenFields(WireFields(d)) # <<>>
           /\ \A i \in 1..Len(TokenFields(WireFields(d))) :
                TokenFields(WireFields(d))[i][2] = Chars(tokenRequest[d].value)
      /\ authentication[d] = Undefined =>
           \A i \in 1..Len(TokenFields(WireFields(d))) :
             /\ HasKey(CallerObject(d), "token")
             /\ TokenFields(WireFields(d))[i][2] = Chars(Get(CallerObject(d), "token"))

\* C3: a JSON or GeoJSON body with an error member rejects the dispatch with
\* a RequestError that carries the member's message and code; a JSON body
\* without one, and a body of any other format whatever it holds, is what
\* the dispatch resolves with.
C3_ErrorCheckOnlyForJson ==
  \A d \in Dispatches :
    (pc[d] = "done" /\ data[d].state = "ok") =>
      LET v   == data[d].value
          raw == fetchPromise[d].value
      IN  IF Format(d) \in {"json", "geojson"}
            THEN IF JsonOf(raw).hasError
                   THEN /\ result[d].state = "rejected"
                        /\ result[d].value.kind = "RequestError"
                        /\ result[d].value.code = JsonOf(raw).code
                        /\ JsonOf(raw).message # "" =>
                             result[d].value.text = JsonOf(raw).message
                        /\ raw = "err400" =>
                             /\ result[d].value.text = "Invalid token"
                             /\ result[d].value.code = 400
                   ELSE result[d] = [state |-> "resolved", value |-> v]
            ELSE /\ result[d] = [state |-> "resolved", value |-> v]
                 /\ Format(d) \in {"text", "html", "image", "zip"} => v.text = raw

\* A JSON dispatch was rejected for the body {error: {code: 400, message:
\* "Invalid token"}}.
C3_Witness ==
  /\ pc[1] = "done"
  /\ Format(1) = "json"
  /\ fetchPromise[1].value = "err400"
  /\ result[1].state = "rejected"
  /\ result[1].value.text = "Invalid token"

\* C4: the format of the dispatch picks the one reader of the body: json
\* and geojson parse it, text and html read it as a string, image and zip as
\* a blob; with any other format nothing is read and the dispatch resolves
\* with undefined.
C4_FormatSelectsDecoder ==
  \A d \in Dispatches :
    (pc[d] \in {"decoded", "done"} /\ fetchPromise[d].state = "resolved") =>
      LET raw == fetchPromise[d].value
          f   == Format(d)
      IN  /\ f \in {"json", "geojson"} =>
                IF IsJson(raw)
                  THEN data[d] = [state |-> "ok", value |-> Val("json", "", 0, JsonOf(raw))]
                  ELSE data[d].state = "failed"
          /\ f \in {"text", "html"} =>
                data[d] = [state |-> "ok", value |-> Val("text", raw, 0, NoJson)]
          /\ f \in {"image", "zip"} =>
                data[d] = [state |-> "ok", value |-> Val("blob", raw, 0, NoJson)]
          /\ f \notin {"json", "geojson", "text", "html", "image", "zip"} =>
                /\ data[d] = [state |-> "ok", value |-> UndefinedVal]
                /\ pc[d] = "done" =>
                     result[d] = [state |-> "resolved", value |-> UndefinedVal]

\* A dispatch with a format outside the six resolved with undefined.
C4_Witness ==
  /\ pc[1] = "done"
  /\ Format(1) = "pjson"
  /\ result[1] = [state |-> "resolved", value |-> UndefinedVal]

\* C5: generateToken(url, {username, password}) calls fetch once, with POST
\* and exactly url, with username, password and f=json in the form body, and
\* resolves with the token and expires of the response.
C5_GenerateToken ==
  \A d \in Dispatches :
    (entry[d] = "generateToken" /\ pc[d] \in {"awaitFetch", "decoded", "done"}) =>
      LET fields == ParseFormData(Sent(d).init.body)
          creds  == CallerObjects[paramsArg[d]]
          Has(k, v) == \E i \in 1..Len(fields) : fields[i] = <<Chars(k), Chars(v)>>
      IN  /\ Len(fetchCalls[d]) = 1
          /\ Sent(d).url = urlArg[d]
          /\ Sent(d).init.method = "POST"
          /\ Sent(d).init.hasBody
          /\ Has("username", Get(creds, "username"))
          /\ Has("password", Get(creds, "password"))
          /\ Has("f", "json")
          /\ (pc[d] = "done" /\ fetchPromise[d] = [state |-> "resolved", value |-> "tokenResp"]) =>
               /\ result[d].state = "resolved"
               /\ result[d].value.obj.token = "token"
               /\ result[d].value.obj.expires = 86400

\* generateToken resolved with the token of the response, for credentials
\* that hold reserved characters.
C5_Witness ==
  /\ entry[1] = "generateToken"
  /\ pc[1] = "done"
  /\ Get(CallerObject(1), "username") = "a&=%"
  /\ result[1].state = "resolved"
  /\ result[1].value.obj.token = "token"

\* The httpMethod the caller asked for, if it is one of the two.
AskedMethod(d) ==
  IF optionsArg[d].given /\ "httpMethod" \in DOMAIN optionsArg[d].obj
     /\ optionsArg[d].obj.httpMethod \in {"GET", "POST"}
    THEN optionsArg[d].obj.httpMethod
    ELSE "POST"

\* C6: the effective parameters hold the caller's parameters and a format,
\* the caller's or else "json"; the effective httpMethod is the caller's, or
\* "POST" when the caller gave none, so it is always GET or POST.
C6_DefaultsMerged ==
  \A d \in Dispatches :
    pc[d] = "awaitToken" =>
      /\ HasKey(heap[params[d]], "f")
      /\ Format(d) = (IF HasKey(CallerObject(d), "f") THEN Get(CallerObject(d), "f") ELSE "json")
      /\ \A k \in Keys(CallerObject(d)) : Get(heap[params[d]], k) = Get(CallerObject(d), k)
      /\ Keys(heap[params[d]]) = Keys(CallerObject(d)) \cup {"f"}
      /\ httpMethod[d] = AskedMethod(d)
      /\ httpMethod[d] \in {"GET", "POST"}

\* C8: a dispatch calls fetch at most once and settles once: it is done
\* exactly when its promise was settled, once, resolved or rejected; a
\* failed fetch and a body that cannot be read reject it with that failure.
C8_OneCallOneOutcome ==
  \A d \in Dispatches :
    /\ Len(fetchCalls[d]) <= 1
    /\ settled[d] <= 1
    /\ (pc[d] = "done") = (settled[d] = 1)
    /\ (pc[d] = "done") = (result[d].state \in {"resolved", "rejected"})
    /\ (pc[d] = "done" /\ fetchPromise[d].state = "rejected") =>
         result[d] = [state |-> "rejected", value |-> ErrorVal("NetworkError")]
    /\ (pc[d] = "done" /\ data[d].state = "failed") =>
         result[d] = [state |-> "rejected", value |-> ErrorVal("SyntaxError")]
    /\ (pc[d] = "done" /\ result[d].state = "resolved") =>
         (data[d].state = "ok" /\ result[d].value = data[d].value)

\* A dispatch was rejected with the failure of its one fetch().
C8_Witness ==
  /\ pc[1] = "done"
  /\ fetchPromise[1].state = "rejected"
  /\ Len(fetchCalls[1]) = 1
  /\ result[1].value.kind = "NetworkError"

\* The parameters a dispatch works with, from its own arguments alone: the
\* format first, the caller's or "json", then the caller's other keys.
OwnMerged(d) ==
  LET obj == CallerObject(d)
      NotF(p) == p[1] # "f"
  IN  <<Pair("f", IF HasKey(obj, "f") THEN Get(obj, "f") ELSE "json")>>
        \o SelectSeq(obj, NotF)

\* ... and its own token, once it has one.
OwnParams(d) ==
  IF HasSent(d) /\ tokenRequest[d].value # ""
    THEN Put(OwnMerged(d), "token", tokenRequest[d].value)
    ELSE OwnMerged(d)

\* The request of a dispatch that has no token to send.
RequestWithoutToken(d) ==
  [url  |-> IF httpMethod[d] = "GET"
              THEN urlArg[d] \o <<"?">> \o encodeQueryString(OwnMerged(d))
              ELSE urlArg[d],
   init |-> [method  |-> httpMethod[d],
             hasBody |-> httpMethod[d] = "POST",
             body    |-> IF httpMethod[d] = "POST" THEN encodeFormData(OwnMerged(d))
                         ELSE <<>>]]

\* C10: a dispatch whose provider failed is rejected with that failure and
\* never calls fetch; a dispatch whose provider resolved to "" sends what it
\* would send without a provider.
C10_ProviderFailureAndEmptyToken ==
  \A d \in Dispatches :
    /\ tokenRequest[d].state = "rejected" =>
         /\ fetchCalls[d] = <<>>
         /\ pc[d] \in {"awaitToken", "done"}
         /\ pc[d] = "done" =>
              result[d] = [state |-> "rejected", value |-> ErrorVal("AuthError")]
    /\ (authentication[d] # Undefined /\ HasSent(d) /\ tokenRequest[d].value = "") =>
         fetchCalls[d] = <<RequestWithoutToken(d)>>

\* A dispatch was rejected because its provider failed.
C10_Witness ==
  /\ pc[1] = "done"
  /\ tokenRequest[1].state = "rejected"
  /\ result[1].value.kind = "AuthError"
  /\ fetchCalls[1] = <<>>

C9_Isolation ==
  /\ \A a \in CallerAddrs : heap[a] = CallerObjects[a]
  /\ \A d \in Dispatches :
       pc[d] # "idle" =>
         /\ params[d] \notin CallerAddrs
         /\ \A e \in Dispatches : (e # d /\ pc[e] # "idle") => params[e] # params[d]
         /\ heap[params[d]] = OwnParams(d)
         /\ HasSent(d) =>
              /\ StartsWith(Sent(d).url, urlArg[d])
              /\ httpMethod[d] \in {"GET", "POST"} =>
                   SentFields(d) = FieldsOf(OwnParams(d))
         /\ (pc[d] \in {"decoded", "done"} /\ data[d].state = "ok") =>
              (data[d].value.kind = "json") = (Get(OwnMerged(d), "f") \in {"json", "geojson"})

\* Two dispatches that share a parameter object and a provider have sent
\* different tokens.
C9_Witness ==
  /\ paramsArg[1] = paramsArg[2]
  /\ authentication[1] = "provider"
  /\ authentication[2] = "provider"
  /\ HasSent(1)
  /\ HasSent(2)
  /\ tokenRequest[1].value = "a&=%"
  /\ tokenRequest[2].value = ""

====
